---- MODULE Spec2Model ----
\* A model of the 8-bit accumulator-machine emulator: the instruction classes
\* (instructions.cpp), the processor state (common.h) and the Emulator engine
\* with its breakpoint list and state loader (emulator.cpp).
EXTENDS Integers, Sequences, FiniteSets, TLC

\* ---------------------------------------------------------------------------
\* Program constants (common.h, instructions.h, emulator.h)
\* ---------------------------------------------------------------------------
ARCH_BITS == 8
ARCH_BITMASK == (2 ^ ARCH_BITS) - 1
ARCH_MAXVAL == ARCH_BITMASK
INSTRUCTION_SIZE == 2
MEMORY_SIZE == 256
MAX_INSTRUCTIONS == MEMORY_SIZE \div INSTRUCTION_SIZE

ADD == 0
AND == 1
ORR == 2
XOR == 3
LDR == 4
STR == 5
JMP == 6
JNE == 7
NUM_OPCODES == 8

\* `int` (addr_t, data_t, total_cycles) is a 32-bit two's complement integer.
INT_MAX == 2147483647
INT_MIN == (-2147483647) - 1

NULL == 0

\* ---------------------------------------------------------------------------
\* Bounds of the model
\* ---------------------------------------------------------------------------
\* how far outside [0, ARCH_MAXVAL] the accumulator is sampled in ExecSpec
AccSlack == 5
\* largest `steps` argument given to run
MaxSteps == 3
\* run is called only while total_cycles is at most this far from a loaded value
MaxCycles == 4
\* insert_breakpoint is called only while fewer breakpoints than this are set
MaxBreakpoints == 2
\* load_state is called at most this many times on one Emulator
MaxLoads == 1
\* insert_breakpoint calls made when the registry is filled
CapFill == 130

\* total_cycles values at which the model still calls run
RunWindow == ((-1)..MaxCycles) \cup {INT_MAX}

\* bytes an out-of-bounds read of state.memory is taken to yield
OutOfBoundsBytes == {0, 255}

\* ---------------------------------------------------------------------------
\* C++ integer operations
\* ---------------------------------------------------------------------------
Byte == 0..ARCH_MAXVAL
MemIndex == 0..(MEMORY_SIZE - 1)

\* x + y on int for y >= 0; signed overflow wraps around (two's complement)
IntAdd(x, y) ==
  IF x > INT_MAX - y THEN INT_MIN + ((x - (INT_MAX - y)) - 1) ELSE x + y

\* x % y of C++ for y > 0: the remainder has the sign of the dividend
CRem(x, y) == IF x >= 0 THEN x % y ELSE -((-x) % y)

\* x & ARCH_BITMASK on a two's complement int: the low ARCH_BITS bits
Mask(x) == x % (ARCH_BITMASK + 1)

\* conversion of an int to byte_t (uint8_t): reduction modulo 2^8
ToByte(x) == x % 256

RECURSIVE BitAnd(_, _, _)
BitAnd(x, y, n) ==
  IF n = 0 THEN 0
  ELSE (IF x % 2 = 1 /\ y % 2 = 1 THEN 1 ELSE 0)
       + 2 * BitAnd(x \div 2, y \div 2, n - 1)

RECURSIVE BitOr(_, _, _)
BitOr(x, y, n) ==
  IF n = 0 THEN 0
  ELSE (IF x % 2 = 1 \/ y % 2 = 1 THEN 1 ELSE 0)
       + 2 * BitOr(x \div 2, y \div 2, n - 1)

RECURSIVE BitXor(_, _, _)
BitXor(x, y, n) ==
  IF n = 0 THEN 0
  ELSE (IF (x % 2) # (y % 2) THEN 1 ELSE 0)
       + 2 * BitXor(x \div 2, y \div 2, n - 1)

\* int op byte_t: the byte operand is promoted to int with zero upper bits, so
\* only the low 8 bits of the int interact with it; the upper bits of x are
\* cleared by &, kept by | and ^
IntAnd(x, m) == BitAnd(x % 256, m, 8)
IntOr(x, m) == (x - (x % 256)) + BitOr(x % 256, m, 8)
IntXor(x, m) == (x - (x % 256)) + BitXor(x % 256, m, 8)

\* ---------------------------------------------------------------------------
\* ProcessorState (common.h) and the instruction classes (instructions.cpp)
\* ---------------------------------------------------------------------------
ZeroMemory == [i \in MemIndex |-> 0]

\* ProcessorState::ProcessorState()
ProcessorState == [acc |-> 0, pc |-> 0, memory |-> ZeroMemory]

\* InstructionBase::_set_address, called by every constructor I<op>(address)
set_address(address) == Mask(address)

\* an instruction object: its dynamic type (opcode) and its _address
Instruction(opcode, address) == [opcode |-> opcode, address |-> set_address(address)]

get_address(instr) == instr.address

Iadd_execute(instr, s) ==
  [s EXCEPT !.acc = IntAdd(s.acc, s.memory[get_address(instr)])]

Iand_execute(instr, s) ==
  [s EXCEPT !.acc = IntAnd(s.acc, s.memory[get_address(instr)])]

Iorr_execute(instr, s) ==
  [s EXCEPT !.acc = IntOr(s.acc, s.memory[get_address(instr)])]

\* variant: XOR computed as inclusive or
Ixor_execute_orr(instr, s) ==
  [s EXCEPT !.acc = IntOr(s.acc, s.memory[get_address(instr)])]

Ixor_execute(instr, s) ==
  [s EXCEPT !.acc = IntXor(s.acc, s.memory[get_address(instr)])]

Ildr_execute(instr, s) ==
  [s EXCEPT !.acc = s.memory[get_address(instr)]]

Istr_execute(instr, s) ==
  [s EXCEPT !.memory[get_address(instr)] = ToByte(s.acc)]

\* variant: the jump target is masked to 8 bits inside _execute
Ijmp_execute_masked(instr, s) ==
  [s EXCEPT !.pc = Mask(get_address(instr) - 2)]

Ijmp_execute(instr, s) ==
  [s EXCEPT !.pc = get_address(instr) - 2]

Ijne_execute(instr, s) ==
  IF s.acc # 0 THEN [s EXCEPT !.pc = get_address(instr) - 2] ELSE s

\* the virtual call instr->_execute(state)
virtual_execute(instr, s) ==
  CASE instr.opcode = ADD -> Iadd_execute(instr, s)
    [] instr.opcode = AND -> Iand_execute(instr, s)
    [] instr.opcode = ORR -> Iorr_execute(instr, s)
    [] instr.opcode = XOR -> Ixor_execute(instr, s)
    [] instr.opcode = LDR -> Ildr_execute(instr, s)
    [] instr.opcode = STR -> Istr_execute(instr, s)
    [] instr.opcode = JMP -> Ijmp_execute(instr, s)
    [] instr.opcode = JNE -> Ijne_execute(instr, s)

\* variant: no masking of pc and accumulator after the instruction
execute_nomask(instr, s) ==
  LET s1 == virtual_execute(instr, s)
  IN  [s1 EXCEPT !.pc = IntAdd(s1.pc, INSTRUCTION_SIZE)]

\* InstructionBase::execute
execute(instr, s) ==
  LET s1 == virtual_execute(instr, s)
      s2 == [s1 EXCEPT !.pc = IntAdd(s1.pc, INSTRUCTION_SIZE)]
  IN  [s2 EXCEPT !.acc = Mask(s2.acc), !.pc = Mask(s2.pc)]

\* the null InstructionBase* (no object)
\* I*::name(): the mnemonic of the instruction's class
Instruction_name(instr) ==
  CASE instr.opcode = ADD -> "ADD"
    [] instr.opcode = AND -> "AND"
    [] instr.opcode = ORR -> "ORR"
    [] instr.opcode = XOR -> "XOR"
    [] instr.opcode = LDR -> "LDR"
    [] instr.opcode = STR -> "STR"
    [] instr.opcode = JMP -> "JMP"
    [] instr.opcode = JNE -> "JNE"

\* std::to_string(int): a minus sign for a negative number, then the decimal
\* digits, most significant first, no padding
RECURSIVE std_to_string(_)
std_to_string(n) ==
  IF n < 0 THEN "-" \o std_to_string(0 - n)
  ELSE LET digit == <<"0", "1", "2", "3", "4", "5", "6", "7", "8", "9">>[(n % 10) + 1]
       IN  IF n < 10 THEN digit ELSE std_to_string(n \div 10) \o digit

\* variant: JNE is described like JMP, the condition is left out
to_string_nocondition(instr) ==
  LET a == std_to_string(get_address(instr))
      n == Instruction_name(instr)
  IN  CASE n = "ADD" -> n \o ": ACC <- ACC + [" \o a \o "]"
        [] n = "AND" -> n \o ": ACC <- ACC & [" \o a \o "]"
        [] n = "ORR" -> n \o ": ACC <- ACC | [" \o a \o "]"
        [] n = "XOR" -> n \o ": ACC <- ACC ^ [" \o a \o "]"
        [] n = "LDR" -> n \o ": ACC <- [" \o a \o "]"
        [] n = "STR" -> n \o ": ACC -> [" \o a \o "]"
        [] n = "JMP" -> n \o ": PC  <- " \o a
        [] n = "JNE" -> n \o ": PC  <- " \o a

\* InstructionBase::to_string
to_string(instr) ==
  LET a == std_to_string(get_address(instr))
      n == Instruction_name(instr)
  IN  CASE n = "ADD" -> n \o ": ACC <- ACC + [" \o a \o "]"
        [] n = "AND" -> n \o ": ACC <- ACC & [" \o a \o "]"
        [] n = "ORR" -> n \o ": ACC <- ACC | [" \o a \o "]"
        [] n = "XOR" -> n \o ": ACC <- ACC ^ [" \o a \o "]"
        [] n = "LDR" -> n \o ": ACC <- [" \o a \o "]"
        [] n = "STR" -> n \o ": ACC -> [" \o a \o "]"
        [] n = "JMP" -> n \o ": PC  <- " \o a
        [] n = "JNE" -> n \o ": PC  <- " \o a \o " if ACC != 0"

NullInstr == [opcode |-> NUM_OPCODES, address |-> 0]

\* variant: the opcode byte is reduced modulo NUM_OPCODES, so no byte is unknown
generateInstruction_wraps(data) ==
  Instruction(data.opcode % NUM_OPCODES, data.address)

\* variant: the classes of JMP and JNE exchanged
generateInstruction_swapped(data) ==
  IF data.opcode = JMP THEN Instruction(JNE, data.address)
  ELSE IF data.opcode = JNE THEN Instruction(JMP, data.address)
  ELSE IF data.opcode \in 0..(NUM_OPCODES - 1) THEN Instruction(data.opcode, data.address)
  ELSE NullInstr

\* InstructionBase::generateInstruction: an instruction object, or NULL
generateInstruction(data) ==
  IF data.opcode = ADD THEN Instruction(ADD, data.address)
  ELSE IF data.opcode = AND THEN Instruction(AND, data.address)
  ELSE IF data.opcode = ORR THEN Instruction(ORR, data.address)
  ELSE IF data.opcode = XOR THEN Instruction(XOR, data.address)
  ELSE IF data.opcode = LDR THEN Instruction(LDR, data.address)
  ELSE IF data.opcode = STR THEN Instruction(STR, data.address)
  ELSE IF data.opcode = JMP THEN Instruction(JMP, data.address)
  ELSE IF data.opcode = JNE THEN Instruction(JNE, data.address)
  ELSE NullInstr

\* ---------------------------------------------------------------------------
\* Breakpoint (emulator.cpp)
\* ---------------------------------------------------------------------------
\* variant: the address is stored as passed, not masked
Breakpoint_nomask(address, name) == [address |-> address, name |-> name]

\* Breakpoint::Breakpoint(addr_t address, const std::string name)
Breakpoint(address, name) == [address |-> Mask(address), name |-> name]

\* variant: the argument is compared as passed, not masked
has_address_nomask(b, address) == b.address = address

\* Breakpoint::has(addr_t)
has_address(b, address) == b.address = Mask(address)

\* variant: names compared without regard to case
has_name_nocase(b, name) ==
  LET Upper(n) == IF n = "a" THEN "A" ELSE n
  IN  Upper(b.name) = Upper(name)

\* Breakpoint::has(const std::string)
has_name(b, name) == b.name = name

\* ---------------------------------------------------------------------------
\* Emulator (emulator.cpp): the fields, the position inside run, and what the
\* caller observes
\* ---------------------------------------------------------------------------
VARIABLES
  state,          \* Emulator::state, a ProcessorState
  breakpoints_v,  \* Emulator::breakpoints_v, the vector of Breakpoint
  total_cycles,   \* Emulator::total_cycles
  ctl,            \* where the caller is: idle, or inside the loop of run with `steps` left
  ret,            \* the operation that returned last and its return value
  obs,            \* record of the operation in progress / returned last (history)
  loads,          \* number of load_state calls made so far (history)
  other           \* a second Emulator object: its state, breakpoints_v, total_cycles

vars == <<state, breakpoints_v, total_cycles, ctl, ret, obs, loads, other>>

\* the members of an Emulator after Emulator::Emulator()
NewEmulator ==
  [state |-> ProcessorState, breakpoints_v |-> <<>>, total_cycles |-> 0]

Idle == [at |-> "idle", steps |-> 0]

\* the breakpoint operations, which touch neither state nor total_cycles
BreakpointOps ==
  {"insert_breakpoint", "delete_breakpoint", "delete_breakpoint_name",
   "find_breakpoint", "find_breakpoint_name"}

\* history: some run has returned 0 and since then this object has seen only
\* breakpoint operations and run calls that executed nothing
ErrorSince ==
  IF obs.op = "run"
  THEN \/ ret.op = "run" /\ ret.value = 0
       \/ obs.failed /\ (\A k \in 1..Len(obs.trace) : ~obs.trace[k].executed)
  ELSE IF obs.op \in BreakpointOps THEN obs.failed
  ELSE FALSE

\* the history record opened when a public operation is called
Observe(op, steps, instr) ==
  [op |-> op, steps |-> steps, instr |-> instr,
   acc0 |-> state.acc, pc0 |-> state.pc, cycles0 |-> total_cycles,
   trace |-> <<>>, address |-> 0, name |-> "", failed |-> ErrorSince]

\* the history record of a breakpoint operation: its address or name argument
ObserveBreakpoint(op, address, name) ==
  [Observe(op, 0, NullInstr) EXCEPT !.address = address, !.name = name]

\* Emulator::Emulator()
Init ==
  /\ state = ProcessorState
  /\ breakpoints_v = <<>>
  /\ total_cycles = 0
  /\ ctl = Idle
  /\ ret = [op |-> "init", value |-> 0]
  /\ obs = [op |-> "init", steps |-> 0, instr |-> NullInstr,
            acc0 |-> 0, pc0 |-> 0, cycles0 |-> 0, trace |-> <<>>,
            address |-> 0, name |-> "", failed |-> FALSE]
  /\ loads = 0
  /\ other = NewEmulator

\* ---- breakpoint management ------------------------------------------------
SetMin(S) == CHOOSE x \in S : \A y \in S : x <= y
SetMax(S) == CHOOSE x \in S : \A y \in S : x >= y

\* Emulator::find_breakpoint(addr_t): the first matching element (its index
\* in the vector, 1-based), or NULL
find_breakpoint_address(bps, address) ==
  LET hits == {i \in 1..Len(bps) : has_address(bps[i], address)}
  IN  IF hits = {} THEN NULL ELSE SetMin(hits)

\* Emulator::find_breakpoint(const std::string)
find_breakpoint_name(bps, name) ==
  LET hits == {i \in 1..Len(bps) : has_name(bps[i], name)}
  IN  IF hits = {} THEN NULL ELSE SetMin(hits)

\* variant: the pc of the instruction just executed is looked up, not the new pc
is_breakpoint_stale(s, bps) ==
  IF find_breakpoint_address(bps, s.pc - INSTRUCTION_SIZE) # NULL THEN 1 ELSE 0

\* Emulator::is_breakpoint
is_breakpoint(s, bps) ==
  IF find_breakpoint_address(bps, s.pc) # NULL THEN 1 ELSE 0

\* variant: the last element is removed whatever the target (pop_back)
erase_last(bps, target) == SubSeq(bps, 1, Len(bps) - 1)

\* variant: the last entry is moved into the freed slot
erase_swap(bps, target) ==
  [j \in 1..(Len(bps) - 1) |-> IF j = target THEN bps[Len(bps)] ELSE bps[j]]

\* std::vector::erase(begin() + target), target 1-based here
erase(bps, target) ==
  SubSeq(bps, 1, target - 1) \o SubSeq(bps, target + 1, Len(bps))

\* variant: only the address is checked, a used name is accepted
insert_breakpoint_noname(bps, address, name) ==
  IF find_breakpoint_address(bps, address) # NULL
    THEN [bps |-> bps, ret |-> 0]
  ELSE [bps |-> Append(bps, Breakpoint(address, name)), ret |-> 1]

\* Emulator::insert_breakpoint: the new vector and the return value
insert_breakpoint(bps, address, name) ==
  IF find_breakpoint_address(bps, address) # NULL
    THEN [bps |-> bps, ret |-> 0]
  ELSE IF find_breakpoint_name(bps, name) # NULL
    THEN [bps |-> bps, ret |-> 0]
  ELSE [bps |-> Append(bps, Breakpoint(address, name)), ret |-> 1]

\* Emulator::delete_breakpoint(addr_t): the loop keeps the last element whose
\* stored address equals the argument as passed
delete_breakpoint_address(bps, address) ==
  IF find_breakpoint_address(bps, address) = NULL
    THEN [bps |-> bps, ret |-> 0]
  ELSE LET hits == {i \in 1..Len(bps) : bps[i].address = address}
       IN  IF hits = {} THEN [bps |-> bps, ret |-> 0]
           ELSE [bps |-> erase(bps, SetMax(hits)), ret |-> 1]

\* Emulator::delete_breakpoint(const std::string)
delete_breakpoint_name(bps, name) ==
  LET found == find_breakpoint_name(bps, name)
  IN  IF found = NULL THEN [bps |-> bps, ret |-> 0]
      ELSE delete_breakpoint_address(bps, bps[found].address)

\* ---- the emulation loop ---------------------------------------------------
\* values a read of state.memory[i] can yield: the cell for an index inside
\* the array; for an index outside it the read is out of bounds (undefined
\* behaviour) and yields whatever byte lies there
ReadMemory(s, i) == IF i \in MemIndex THEN {s.memory[i]} ELSE OutOfBoundsBytes

\* Emulator::fetch: the InstructionData values the two reads can yield
fetch(s) ==
  {[opcode |-> o, address |-> a] :
     o \in ReadMemory(s, s.pc), a \in ReadMemory(s, IntAdd(s.pc, 1))}

\* Emulator::decode
decode(data) == generateInstruction(data)

\* what run records about one pass of its loop
CycleRecord(pc0, fetched, data, executed, s1) ==
  [pc |-> pc0, fetched |-> fetched, opcode |-> data.opcode,
   executed |-> executed, pc_after |-> s1.pc]

NoData == [opcode |-> 0, address |-> 0]

\* return from run with value v
RunReturn(v) ==
  /\ ctl' = Idle
  /\ ret' = [op |-> "run", value |-> v]

\* variant: a do-while loop, the body is entered before steps is tested
RunCall_dowhile(steps) ==
  /\ ctl.at = "idle"
  /\ total_cycles \in RunWindow
  /\ obs' = Observe("run", steps, NullInstr)
  /\ ctl' = [at |-> "run", steps |-> steps]
  /\ ret' = ret
  /\ UNCHANGED <<state, breakpoints_v, total_cycles, loads, other>>

\* Emulator::run, entry: `if (steps == 0) return 1;`, then the loop test
RunCall(steps) ==
  /\ ctl.at = "idle"
  /\ total_cycles \in RunWindow
  /\ obs' = Observe("run", steps, NullInstr)
  /\ IF steps = 0 THEN RunReturn(1)
     ELSE IF steps > 0
       THEN /\ ctl' = [at |-> "run", steps |-> steps]
            /\ ret' = ret
       ELSE RunReturn(1)
  /\ UNCHANGED <<state, breakpoints_v, total_cycles, loads, other>>

\* Emulator::run, one pass of the loop body (steps > 0 holds here)
RunCycle ==
  /\ ctl.at = "run"
  /\ IF CRem(state.pc, 2) = 1
       THEN /\ RunReturn(0)
            /\ obs' = [obs EXCEPT !.trace =
                         Append(@, CycleRecord(state.pc, FALSE, NoData, FALSE, state))]
            /\ UNCHANGED <<state, breakpoints_v, total_cycles, loads, other>>
       ELSE \E data \in fetch(state) :
              LET instr == decode(data) IN
              IF instr = NullInstr
                THEN /\ RunReturn(0)
                     /\ obs' = [obs EXCEPT !.trace =
                                  Append(@, CycleRecord(state.pc, TRUE, data, FALSE, state))]
                     /\ UNCHANGED <<state, breakpoints_v, total_cycles, loads, other>>
                ELSE LET s1 == execute(instr, state) IN
                     /\ state' = s1
                     /\ total_cycles' = IntAdd(total_cycles, 1)
                     /\ obs' = [obs EXCEPT !.trace =
                                  Append(@, CycleRecord(state.pc, TRUE, data, TRUE, s1))]
                     /\ UNCHANGED <<breakpoints_v, loads, other>>
                     /\ IF is_breakpoint(s1, breakpoints_v) = 1
                          THEN RunReturn(1)
                          ELSE IF ctl.steps - 1 > 0
                            THEN /\ ctl' = [ctl EXCEPT !.steps = @ - 1]
                                 /\ ret' = ret
                            ELSE RunReturn(1)

\* Emulator::execute(InstructionBase*), called directly on a newly constructed
\* instruction of the class for `opcode`, constructor argument `address`
ExecuteCall(opcode, address) ==
  /\ ctl.at = "idle"
  /\ obs' = Observe("execute", 0, [opcode |-> opcode, address |-> address])
  /\ state' = execute(Instruction(opcode, address), state)
  /\ ret' = [op |-> "execute", value |-> 1]
  /\ UNCHANGED <<breakpoints_v, total_cycles, ctl, loads, other>>

\* I*::_execute(ProcessorState&), called directly (without the execute wrapper)
\* on a newly constructed instruction of the class for `opcode`
RawExecuteCall(opcode, address) ==
  /\ ctl.at = "idle"
  /\ obs' = Observe("_execute", 0, [opcode |-> opcode, address |-> address])
  /\ state' = virtual_execute(Instruction(opcode, address), state)
  /\ ret' = [op |-> "_execute", value |-> 0]
  /\ UNCHANGED <<breakpoints_v, total_cycles, ctl, loads, other>>

\* InstructionBase::to_string(), called on a newly constructed instruction of
\* the class for `opcode`, constructor argument `address`
ToStringCall(opcode, address) ==
  /\ ctl.at = "idle"
  /\ obs' = Observe("to_string", 0, [opcode |-> opcode, address |-> address])
  /\ ret' = [op |-> "to_string", value |-> to_string(Instruction(opcode, address))]
  /\ UNCHANGED <<state, breakpoints_v, total_cycles, ctl, loads, other>>

\* ---- breakpoint operations as called by the user -------------------------
InsertBreakpoint(address, name) ==
  /\ ctl.at = "idle"
  /\ Len(breakpoints_v) < MaxBreakpoints
  /\ LET r == insert_breakpoint(breakpoints_v, address, name) IN
       /\ breakpoints_v' = r.bps
       /\ ret' = [op |-> "insert_breakpoint", value |-> r.ret]
  /\ obs' = ObserveBreakpoint("insert_breakpoint", address, name)
  /\ UNCHANGED <<state, total_cycles, ctl, loads, other>>

DeleteBreakpointAddress(address) ==
  /\ ctl.at = "idle"
  /\ LET r == delete_breakpoint_address(breakpoints_v, address) IN
       /\ breakpoints_v' = r.bps
       /\ ret' = [op |-> "delete_breakpoint", value |-> r.ret]
  /\ obs' = ObserveBreakpoint("delete_breakpoint", address, "")
  /\ UNCHANGED <<state, total_cycles, ctl, loads, other>>

DeleteBreakpointName(name) ==
  /\ ctl.at = "idle"
  /\ LET r == delete_breakpoint_name(breakpoints_v, name) IN
       /\ breakpoints_v' = r.bps
       /\ ret' = [op |-> "delete_breakpoint", value |-> r.ret]
  /\ obs' = ObserveBreakpoint("delete_breakpoint_name", 0, name)
  /\ UNCHANGED <<state, total_cycles, ctl, loads, other>>

\* Emulator::find_breakpoint(addr_t), called by the user: the entry found (its
\* 1-based index in the vector) or NULL
FindBreakpointAddress(address) ==
  /\ ctl.at = "idle"
  /\ ret' = [op |-> "find_breakpoint",
             value |-> find_breakpoint_address(breakpoints_v, address)]
  /\ obs' = ObserveBreakpoint("find_breakpoint", address, "")
  /\ UNCHANGED <<state, breakpoints_v, total_cycles, ctl, loads, other>>

\* Emulator::find_breakpoint(const std::string), called by the user
FindBreakpointName(name) ==
  /\ ctl.at = "idle"
  /\ ret' = [op |-> "find_breakpoint",
             value |-> find_breakpoint_name(breakpoints_v, name)]
  /\ obs' = ObserveBreakpoint("find_breakpoint_name", 0, name)
  /\ UNCHANGED <<state, breakpoints_v, total_cycles, ctl, loads, other>>

\* insert_breakpoint called with the next unused address and a fresh name, with
\* no bound of the model on the size of the registry but CapFill calls
FillBreakpoint ==
  /\ ctl.at = "idle"
  /\ Len(breakpoints_v) < CapFill
  /\ LET address == Len(breakpoints_v)
         name == ToString(Len(breakpoints_v))
         r == insert_breakpoint(breakpoints_v, address, name)
     IN  /\ breakpoints_v' = r.bps
         /\ ret' = [op |-> "insert_breakpoint", value |-> r.ret]
         /\ obs' = ObserveBreakpoint("insert_breakpoint", address, name)
  /\ UNCHANGED <<state, total_cycles, ctl, loads, other>>

\* Emulator::decode(fetch()), called by the user on the instruction at pc
DecodeCall ==
  /\ ctl.at = "idle"
  /\ \E data \in fetch(state) :
       LET instr == decode(data) IN
       /\ obs' = Observe("decode", 0, instr)
       /\ ret' = [op |-> "decode", value |-> IF instr = NullInstr THEN 0 ELSE 1]
  /\ UNCHANGED <<state, breakpoints_v, total_cycles, ctl, loads, other>>

\* ---- load_state -----------------------------------------------------------
\* A state file as the numbers and names its lines hold: total_cycles, acc and
\* pc (lines 1-3), the 256 memory lines, then the breakpoint lines.

\* variant: each record is inserted in front of the ones read before it
RECURSIVE load_breakpoints_front(_, _)
load_breakpoints_front(bps, records) ==
  IF records = <<>> THEN [bps |-> bps, ret |-> 1]
  ELSE LET r == Head(records) IN
       IF r.address < 0 \/ r.address >= MEMORY_SIZE THEN [bps |-> bps, ret |-> 0]
       ELSE LET ins == insert_breakpoint(bps, r.address, r.name) IN
            IF ins.ret = 0 THEN [bps |-> ins.bps, ret |-> 0]
            ELSE load_breakpoints_front(
                   <<Breakpoint(r.address, r.name)>> \o bps, Tail(records))

\* variant: the address of a record is not range-checked before the insert
RECURSIVE load_breakpoints_norange(_, _)
load_breakpoints_norange(bps, records) ==
  IF records = <<>> THEN [bps |-> bps, ret |-> 1]
  ELSE LET r == Head(records)
           ins == insert_breakpoint(bps, r.address, r.name)
       IN  IF ins.ret = 0 THEN [bps |-> ins.bps, ret |-> 0]
           ELSE load_breakpoints_norange(ins.bps, Tail(records))

\* the breakpoint loop of load_state
RECURSIVE load_breakpoints(_, _)
load_breakpoints(bps, records) ==
  IF records = <<>> THEN [bps |-> bps, ret |-> 1]
  ELSE LET r == Head(records) IN
       IF r.address < 0 \/ r.address >= MEMORY_SIZE THEN [bps |-> bps, ret |-> 0]
       ELSE LET ins == insert_breakpoint(bps, r.address, r.name) IN
            IF ins.ret = 0 THEN [bps |-> ins.bps, ret |-> 0]
            ELSE load_breakpoints(ins.bps, Tail(records))

\* Emulator::load_state: the fields it leaves and its return value; every
\* number is stored before it is validated
load_state(s, cycles, file) ==
  IF ~file.exists
    THEN [state |-> s, total_cycles |-> cycles, bps |-> <<>>, ret |-> 0]
  ELSE IF file.total_cycles < 0
    THEN [state |-> s, total_cycles |-> file.total_cycles, bps |-> <<>>, ret |-> 0]
  ELSE IF file.acc > ARCH_MAXVAL \/ file.acc < 0
    THEN [state |-> [s EXCEPT !.acc = file.acc],
          total_cycles |-> file.total_cycles, bps |-> <<>>, ret |-> 0]
  ELSE IF file.pc >= MEMORY_SIZE \/ file.pc < 0
    THEN [state |-> [s EXCEPT !.acc = file.acc, !.pc = file.pc],
          total_cycles |-> file.total_cycles, bps |-> <<>>, ret |-> 0]
  ELSE LET bad == {i \in MemIndex : file.memory[i] > ARCH_MAXVAL \/ file.memory[i] < 0}
           upto == IF bad = {} THEN MEMORY_SIZE ELSE SetMin(bad)
           mem == [i \in MemIndex |-> IF i < upto THEN file.memory[i] ELSE s.memory[i]]
           s1 == [acc |-> file.acc, pc |-> file.pc, memory |-> mem]
       IN  IF bad # {}
             THEN [state |-> s1, total_cycles |-> file.total_cycles, bps |-> <<>>, ret |-> 0]
           ELSE LET l == load_breakpoints(<<>>, file.breakpoints) IN
                [state |-> s1, total_cycles |-> file.total_cycles, bps |-> l.bps, ret |-> l.ret]

LoadState(file) ==
  /\ ctl.at = "idle"
  /\ loads < MaxLoads
  /\ loads' = loads + 1
  /\ LET r == load_state(state, total_cycles, file) IN
       /\ state' = r.state
       /\ total_cycles' = r.total_cycles
       /\ breakpoints_v' = r.bps
       /\ ret' = [op |-> "load_state", value |-> r.ret]
  /\ obs' = Observe("load_state", 0, NullInstr)
  /\ UNCHANGED <<ctl, other>>

\* ---- copies of an Emulator -----------------------------------------------
\* the members of the object the operations are called on
This ==
  [state |-> state, breakpoints_v |-> breakpoints_v, total_cycles |-> total_cycles]

\* the loop `breakpoints_v.push_back(other.breakpoints_v[i])` of the copy
\* constructor and of the copy assignment: the entries of src appended to dst
RECURSIVE push_back_all(_, _)
push_back_all(dst, src) ==
  IF src = <<>> THEN dst
  ELSE push_back_all(Append(dst, Head(src)), Tail(src))

\* variant: the breakpoints are not copied
Emulator_copy_nobreakpoints(o) ==
  [state |-> o.state, breakpoints_v |-> <<>>, total_cycles |-> o.total_cycles]

\* Emulator::Emulator(const Emulator& other): the members of the new object
Emulator_copy(o) ==
  [state |-> o.state,
   breakpoints_v |-> push_back_all(<<>>, o.breakpoints_v),
   total_cycles |-> o.total_cycles]

\* Emulator::operator=(const Emulator& other), this # &other: the members of
\* *this afterwards; breakpoints_v is not cleared before the push_back loop
copy_assign(this, o) ==
  [state |-> o.state,
   breakpoints_v |-> push_back_all(this.breakpoints_v, o.breakpoints_v),
   total_cycles |-> o.total_cycles]

\* Emulator b(a): the second object is constructed as a copy of this one
CopyConstruct ==
  /\ ctl.at = "idle"
  /\ Len(breakpoints_v) <= MaxBreakpoints
  /\ other' = Emulator_copy(This)
  /\ ret' = [op |-> "copy_construct", value |-> 0]
  /\ obs' = Observe("copy_construct", 0, NullInstr)
  /\ UNCHANGED <<state, breakpoints_v, total_cycles, ctl, loads>>

\* a = b: the second object is assigned to this one
CopyAssign ==
  /\ ctl.at = "idle"
  /\ Len(breakpoints_v) <= MaxBreakpoints
  /\ Len(other.breakpoints_v) <= MaxBreakpoints
  /\ LET r == copy_assign(This, other) IN
       /\ state' = r.state
       /\ breakpoints_v' = r.breakpoints_v
       /\ total_cycles' = r.total_cycles
  /\ ret' = [op |-> "copy_assign", value |-> 0]
  /\ obs' = Observe("copy_assign", 0, NullInstr)
  /\ UNCHANGED <<ctl, loads, other>>

\* a = a: `if (this == &other) return *this;`
SelfAssign ==
  /\ ctl.at = "idle"
  /\ ret' = [op |-> "self_assign", value |-> 0]
  /\ obs' = Observe("self_assign", 0, NullInstr)
  /\ UNCHANGED <<state, breakpoints_v, total_cycles, ctl, loads, other>>

\* the caller turns to the second object: the following operations are called
\* on it
Switch ==
  /\ ctl.at = "idle"
  /\ state' = other.state
  /\ breakpoints_v' = other.breakpoints_v
  /\ total_cycles' = other.total_cycles
  /\ other' = This
  /\ ret' = [op |-> "switch", value |-> 0]
  /\ obs' = [Observe("switch", 0, NullInstr) EXCEPT
              !.acc0 = other.state.acc, !.pc0 = other.state.pc,
              !.cycles0 = other.total_cycles]
  /\ UNCHANGED <<ctl, loads>>

\* ---------------------------------------------------------------------------
\* The inputs of the model
\* ---------------------------------------------------------------------------
\* a memory image: the given cells, 0 elsewhere
Image(cells) == [i \in MemIndex |-> IF i \in DOMAIN cells THEN cells[i] ELSE 0]

\* the bytes of seq laid out from address base
At(base, seq) == [i \in base..(base + Len(seq) - 1) |-> seq[i - base + 1]]

\* every opcode once, a jump to an odd address at 16, an unknown opcode at 14,
\* an instruction in the last slot (pc wraps from 254 to 0)
ProgAll ==
  Image(At(0, <<ADD, 40, AND, 41, ORR, 42, XOR, 43, LDR, 44, STR, 45, JNE, 16,
                9, 9, JMP, 21>>)
        @@ At(40, <<200, 15, 240, 255, 7, 0>>) @@ At(254, <<ADD, 40>>))

\* a countdown loop: the counter at 32, -1 at 33, the exit (an idle loop) at 8
ProgCountdown ==
  Image(At(0, <<LDR, 32, ADD, 33, STR, 32, JNE, 0, JMP, 8>>) @@ At(32, <<2, 255>>))

\* memory[i] = i: ADD 1, ORR 3, LDR 5, JMP 7, then the odd pc 7
ProgIdent == [i \in MemIndex |-> i]

\* a JNE to the odd address 5, over an unknown opcode at 2
ProgDecode == Image(At(0, <<JNE, 5, NUM_OPCODES, 1, 200, 0>>))

File(cycles, acc, pc, memory, bps) ==
  [exists |-> TRUE, total_cycles |-> cycles, acc |-> acc, pc |-> pc,
   memory |-> memory, breakpoints |-> bps]

BP(address, name) == [address |-> address, name |-> name]

GoodFiles ==
  { File(0, 5, 254, ProgAll, <<>>),
    File(1, 0, 0, ProgCountdown, <<BP(4, "UPDATE")>>),
    File(0, 0, 0, ProgDecode, <<>>),
    File(0, 1, 0, ProgDecode, <<>>),
    File(INT_MAX, 1, 0, ProgDecode, <<>>) }

BadFiles ==
  { [File(0, 0, 0, ZeroMemory, <<>>) EXCEPT !.exists = FALSE],
    File(-1, 0, 0, ProgAll, <<>>),
    File(0, 260, 0, ProgAll, <<>>),
    File(0, 0, -5, ProgAll, <<>>),
    File(0, 0, 300, ProgAll, <<>>),
    File(0, 0, 0, [ProgIdent EXCEPT ![3] = 256], <<>>),
    File(0, 0, 0, ProgAll, <<BP(4, "A"), BP(4, "B")>>) }

Files == GoodFiles \cup BadFiles

StepArgs == (-1)..MaxSteps
BreakpointAddressArgs == {4, 260}
BreakpointNameArgs == {"A", "UPDATE"}

\* ---------------------------------------------------------------------------
\* The emulator under every sequence of public operations
\* ---------------------------------------------------------------------------
Next ==
  \/ \E steps \in StepArgs : RunCall(steps)
  \/ RunCycle
  \/ \E a \in BreakpointAddressArgs, n \in BreakpointNameArgs : InsertBreakpoint(a, n)
  \/ \E a \in BreakpointAddressArgs : DeleteBreakpointAddress(a)
  \/ \E n \in BreakpointNameArgs : DeleteBreakpointName(n)
  \/ \E f \in Files : LoadState(f)

Spec == Init /\ [][Next]_vars

\* ---------------------------------------------------------------------------
\* One instruction, or one run call, on a processor state drawn from a sweep
\* ---------------------------------------------------------------------------
\* cell 64 holds the operand m; every other even cell holds an opcode (all
\* eight in turn) and every odd cell the address 64
SweepMemory(m) ==
  [i \in MemIndex |->
     IF i = 64 THEN m
     ELSE IF i % 2 = 0 THEN (i \div 2) % NUM_OPCODES ELSE 64]

AccRange == (0 - AccSlack)..(ARCH_MAXVAL + AccSlack)
AccSamples == {-1, 0, 1, 5, 170, 255, 260}
MemSamples == {0, 1, 15, 85, 128, 170, 200, 255}
PcSamples == {-2, 0, 2, 253, 254, 255, 300}
\* constructor arguments of the instruction executed
AddressArgs == {-1, 0, 1, 64, 255, 256, 320}

SweepInputs ==
  (AccRange \X {2} \X MemSamples)
    \cup (AccSamples \X {2} \X Byte)
    \cup (AccSamples \X PcSamples \X {0, 255})

ExecInit ==
  /\ \E in \in SweepInputs :
       state = [acc |-> in[1], pc |-> in[2], memory |-> SweepMemory(in[3])]
  /\ breakpoints_v = <<>>
  /\ total_cycles = 0
  /\ ctl = Idle
  /\ ret = [op |-> "init", value |-> 0]
  /\ obs = [op |-> "init", steps |-> 0, instr |-> NullInstr,
            acc0 |-> 0, pc0 |-> 0, cycles0 |-> 0, trace |-> <<>>,
            address |-> 0, name |-> "", failed |-> FALSE]
  /\ loads = 0
  /\ other = NewEmulator

ExecNext ==
  \/ /\ obs.op = "init"
     /\ \E opcode \in 0..(NUM_OPCODES - 1), a \in AddressArgs : ExecuteCall(opcode, a)
  \/ /\ obs.op = "init"
     /\ \E steps \in StepArgs : RunCall(steps)
  \/ RunCycle

ExecSpec == ExecInit /\ [][ExecNext]_vars

\* ---------------------------------------------------------------------------
\* One arithmetic or load instruction on every accumulator and operand byte
\* ---------------------------------------------------------------------------
\* cell i holds (m + i) mod 256, so cell 0 holds m and each cell a different byte
ShiftMemory(m) == [i \in MemIndex |-> (m + i) % 256]

\* constructor arguments: cell 0, cell 64, and 511 (masked to cell 255)
AluAddressArgs == {0, 64, 511}
AluOpcodes == {ADD, AND, ORR, XOR, LDR}

AluInit ==
  /\ \E v \in Byte, m \in Byte :
       state = [acc |-> v, pc |-> 2, memory |-> ShiftMemory(m)]
  /\ breakpoints_v = <<>>
  /\ total_cycles = 0
  /\ ctl = Idle
  /\ ret = [op |-> "init", value |-> 0]
  /\ obs = [op |-> "init", steps |-> 0, instr |-> NullInstr,
            acc0 |-> 0, pc0 |-> 0, cycles0 |-> 0, trace |-> <<>>,
            address |-> 0, name |-> "", failed |-> FALSE]
  /\ loads = 0
  /\ other = NewEmulator

AluNext ==
  /\ obs.op = "init"
  /\ \E opcode \in AluOpcodes, a \in AluAddressArgs : ExecuteCall(opcode, a)

AluSpec == AluInit /\ [][AluNext]_vars

\* ---------------------------------------------------------------------------
\* decode(fetch()) and run(1) on every encoding (opcode byte, address byte)
\* ---------------------------------------------------------------------------
\* memory[i] = i, with the instruction (opcode, address) stored at pc, pc + 1
EncodeAt(pc, opcode, address) ==
  [i \in MemIndex |->
     IF i = pc THEN opcode ELSE IF i = pc + 1 THEN address ELSE i]

\* <<opcode byte, address byte, accumulator, pc>>
DecodeInputs ==
  (Byte \X Byte \X {85} \X {0})
    \cup ((0..(NUM_OPCODES - 1)) \X Byte \X {0, 85} \X {0, 254})

DecodeInit ==
  /\ \E in \in DecodeInputs :
       state = [acc |-> in[3], pc |-> in[4], memory |-> EncodeAt(in[4], in[1], in[2])]
  /\ breakpoints_v = <<>>
  /\ total_cycles = 0
  /\ ctl = Idle
  /\ ret = [op |-> "init", value |-> 0]
  /\ obs = [op |-> "init", steps |-> 0, instr |-> NullInstr,
            acc0 |-> 0, pc0 |-> 0, cycles0 |-> 0, trace |-> <<>>,
            address |-> 0, name |-> "", failed |-> FALSE]
  /\ loads = 0
  /\ other = NewEmulator

DecodeNext ==
  \/ /\ obs.op = "init"
     /\ DecodeCall
  \/ /\ obs.op = "init"
     /\ RunCall(1)
  \/ RunCycle

DecodeSpec == DecodeInit /\ [][DecodeNext]_vars

\* ---------------------------------------------------------------------------
\* The breakpoint registry under insert, delete, find and load_state
\* ---------------------------------------------------------------------------
\* 258 and -252 are the addresses 2 and 4 plus or minus a multiple of 256
RegAddressArgs == {2, 4, 6, 258, -252}
RegNameArgs == {"", "A", "a", "UPDATE"}

RegFiles ==
  { File(0, 0, 0, ZeroMemory, <<BP(2, "A"), BP(4, "UPDATE")>>),
    File(0, 0, 0, ZeroMemory, <<BP(4, "A"), BP(4, "B")>>),
    File(0, 0, 0, ZeroMemory, <<BP(2, "A"), BP(6, "A")>>),
    File(0, 0, 0, ZeroMemory, <<BP(6, "a"), BP(256, "A")>>),
    File(0, 0, 0, ZeroMemory, <<BP(-1, "A")>>) }

RegNext ==
  \/ \E a \in RegAddressArgs, n \in RegNameArgs : InsertBreakpoint(a, n)
  \/ \E a \in RegAddressArgs : DeleteBreakpointAddress(a)
  \/ \E n \in RegNameArgs : DeleteBreakpointName(n)
  \/ \E a \in RegAddressArgs : FindBreakpointAddress(a)
  \/ \E n \in RegNameArgs : FindBreakpointName(n)
  \/ \E f \in RegFiles : LoadState(f)

RegSpec == Init /\ [][RegNext]_vars

\* ---------------------------------------------------------------------------
\* The registry filled by CapFill insert_breakpoint calls
\* ---------------------------------------------------------------------------
CapSpec == Init /\ [][FillBreakpoint]_vars

\* ---------------------------------------------------------------------------
\* A registry of up to MaxOrdered breakpoints, entries deleted from any position
\* ---------------------------------------------------------------------------
MaxOrdered == 4
OrderAddressArgs == 0..(MaxOrdered - 1)
OrderNameArgs == {ToString(a) : a \in OrderAddressArgs}

OrderNext ==
  \/ Len(breakpoints_v) < MaxOrdered /\ FillBreakpoint
  \/ \E a \in OrderAddressArgs : DeleteBreakpointAddress(a)
  \/ \E n \in OrderNameArgs : DeleteBreakpointName(n)

OrderSpec == Init /\ [][OrderNext]_vars

\* ---------------------------------------------------------------------------
\* Two Emulator objects: one copied from or assigned to the other, operations
\* called on either
\* ---------------------------------------------------------------------------
CopyAddressArgs == {2, 4}
CopyBreakpoints == {BP(2, "A"), BP(4, "B")}
CopyFiles ==
  { File(3, 7, 2, ProgCountdown, <<BP(4, "UPDATE")>>) }

CopyNext ==
  \/ \E b \in CopyBreakpoints : InsertBreakpoint(b.address, b.name)
  \/ \E a \in CopyAddressArgs : DeleteBreakpointAddress(a)
  \/ obs.op = "init" /\ \E f \in CopyFiles : LoadState(f)
  \/ CopyConstruct
  \/ CopyAssign
  \/ SelfAssign
  \/ Switch

CopySpec == Init /\ [][CopyNext]_vars

\* ---------------------------------------------------------------------------
\* load_state called on an Emulator that may hold breakpoints already
\* ---------------------------------------------------------------------------
LoadFiles ==
  Files \cup RegFiles \cup
  { File(2, 9, 6, ProgCountdown, <<BP(8, "EXIT"), BP(2, "A")>>),
    File(0, 0, 0, ProgAll, <<BP(2, "A"), BP(4, "B"), BP(2, "C")>>) }

LoadNext ==
  \/ \E b \in CopyBreakpoints : InsertBreakpoint(b.address, b.name)
  \/ \E a \in CopyAddressArgs : DeleteBreakpointAddress(a)
  \/ \E f \in LoadFiles : LoadState(f)

LoadSpec == Init /\ [][LoadNext]_vars

\* ---------------------------------------------------------------------------
\* The countdown loop run to its exit: load_state of the program with the
\* counter set to c and a breakpoint at the exit address only, then one call
\* of run with a budget of at least 4c steps
\* ---------------------------------------------------------------------------
MaxCount == 6
LoopCounts == 1..MaxCount
\* the loop at 0..7 counts memory[32] down; memory[34] is never written and
\* keeps the initial value of the counter
Countdown(c) == [ProgCountdown EXCEPT ![32] = c, ![34] = c]
LoopCyclesArgs == {0, 3, INT_MAX}
LoopFiles ==
  { File(t, 0, 0, Countdown(c), <<BP(8, "EXIT")>>) :
      t \in LoopCyclesArgs, c \in LoopCounts }
BudgetSlack == {0, 1, 1000}

LoopNext ==
  \/ obs.op = "init" /\ \E f \in LoopFiles : LoadState(f)
  \/ /\ obs.op = "load_state"
     /\ ret.value = 1
     /\ \E k \in BudgetSlack : RunCall(4 * state.memory[32] + k)
  \/ RunCycle

LoopSpec == Init /\ [][LoopNext]_vars

\* ---------------------------------------------------------------------------
\* to_string called on instructions of every class
\* ---------------------------------------------------------------------------
StrAddressArgs == (-2)..300

StrNext ==
  /\ obs.op = "init"
  /\ \E opcode \in 0..(NUM_OPCODES - 1), a \in StrAddressArgs : ToStringCall(opcode, a)

StrSpec == Init /\ [][StrNext]_vars

\* ---------------------------------------------------------------------------
\* One instruction applied to a ProcessorState, by _execute alone or through
\* the execute wrapper
\* ---------------------------------------------------------------------------
RawNext ==
  \/ /\ obs.op = "init"
     /\ \E opcode \in 0..(NUM_OPCODES - 1), a \in AddressArgs : RawExecuteCall(opcode, a)
  \/ /\ obs.op = "init"
     /\ \E opcode \in 0..(NUM_OPCODES - 1), a \in AddressArgs : ExecuteCall(opcode, a)

RawSpec == ExecInit /\ [][RawNext]_vars

\* ---------------------------------------------------------------------------
\* run called repeatedly on a loaded program: the countdown program entered at
\* its idle loop (JMP 8 at 8) with and without a breakpoint there, and at its
\* start with breakpoints on the start address and inside the loop
\* ---------------------------------------------------------------------------
IdleFiles ==
  { File(0, 0, 8, ProgCountdown, <<BP(8, "EXIT")>>),
    File(0, 0, 8, ProgCountdown, <<>>),
    File(1, 0, 0, ProgCountdown, <<BP(0, "START"), BP(4, "UPDATE")>>),
    File(0, 1, 0, ProgDecode, <<BP(0, "START")>>) }
IdleStepArgs == {0, 1, 2, 1000}

IdleNext ==
  \/ obs.op = "init" /\ \E f \in IdleFiles : LoadState(f)
  \/ obs.op # "init" /\ \E steps \in IdleStepArgs : RunCall(steps)
  \/ RunCycle

IdleSpec == Init /\ [][IdleNext]_vars

\* the same, with the loop of run making progress: a call that has entered the
\* loop keeps taking passes (run is sequential code, nothing suspends it)
IdleLiveSpec == IdleSpec /\ WF_vars(RunCycle)

\* ---- run as a function of the object it is called on -------------------------
\* one pass of the loop of Emulator::run on the object e: the outcomes it can
\* have, each with the object after the pass, whether run returns in this pass
\* and the value it returns then
run_pass(e) ==
  IF CRem(e.state.pc, 2) = 1
    THEN {[e |-> e, stop |-> TRUE, value |-> 0]}
    ELSE {LET instr == decode(data) IN
          IF instr = NullInstr
            THEN [e |-> e, stop |-> TRUE, value |-> 0]
            ELSE LET s1 == execute(instr, e.state) IN
                 [e |-> [e EXCEPT !.state = s1,
                                  !.total_cycles = IntAdd(@, 1)],
                  stop |-> is_breakpoint(s1, e.breakpoints_v) = 1,
                  value |-> 1]
          : data \in fetch(e.state)}

\* Emulator::run(steps) on the object e: the outcomes of the whole call, each
\* with the object at the return and the value returned
RECURSIVE run(_, _)
run(e, steps) ==
  IF steps <= 0
    THEN {[e |-> e, value |-> 1]}
    ELSE UNION {IF o.stop THEN {[e |-> o.e, value |-> o.value]}
                          ELSE run(o.e, steps - 1) : o \in run_pass(e)}

\* x.run(a); x.run(b); on this object and y.run(a + b); on the second one,
\* which is a copy of this one
RunThenRun(a, b) ==
  /\ ctl.at = "idle"
  /\ other = This
  /\ total_cycles \in RunWindow
  /\ \E x \in run(This, a) : \E y \in run(x.e, b) : \E z \in run(other, a + b) :
       /\ state' = y.e.state
       /\ breakpoints_v' = y.e.breakpoints_v
       /\ total_cycles' = y.e.total_cycles
       /\ other' = z.e
       /\ ret' = [op |-> "run", value |-> y.value]
  /\ obs' = Observe("run_then_run", a + b, NullInstr)
  /\ UNCHANGED <<ctl, loads>>

CompStepArgs == 0..3
CompJumpArgs == {0, 7, 8, 254}

CompNext ==
  \/ obs.op = "init" /\ \E f \in Files : LoadState(f)
  \/ obs.op = "load_state" /\ \E address \in CompJumpArgs : ExecuteCall(JMP, address)
  \/ obs.op \in {"load_state", "execute"} /\ CopyConstruct
  \/ obs.op = "copy_construct"
       /\ \E a \in CompStepArgs : \E b \in CompStepArgs : RunThenRun(a, b)

CompSpec == Init /\ [][CompNext]_vars

\* ---- the state file as text ---------------------------------------------------
DigitChars == <<"0", "1", "2", "3", "4", "5", "6", "7", "8", "9">>

\* the decimal digits of n >= 0, most significant first
RECURSIVE Digits(_)
Digits(n) ==
  IF n < 10 THEN <<DigitChars[n + 1]>>
  ELSE Append(Digits(n \div 10), DigitChars[(n % 10) + 1])

\* fprintf(fp, "%d", n): the characters written
fprintf_d(n) == IF n < 0 THEN <<"-">> \o Digits(0 - n) ELSE Digits(n)

\* the number a sequence of decimal digits denotes
RECURSIVE DigitsValue(_)
DigitsValue(t) ==
  LET d == CHOOSE k \in 0..9 : DigitChars[k + 1] = t[Len(t)]
  IN  IF Len(t) = 1 THEN d ELSE DigitsValue(SubSeq(t, 1, Len(t) - 1)) * 10 + d

\* std::stoi (and fscanf "%d") on the text of one number
stoi(t) == IF Head(t) = "-" THEN 0 - DigitsValue(Tail(t)) ELSE DigitsValue(t)

\* what stands for bytes that are not the text of a name
ObjectBytes == "<bytes>"

\* fprintf(fp, "%s", b.get_name()): a std::string object is passed where "%s"
\* takes a char*, which is undefined; the build may print the characters of
\* the name, the bytes of the object up to its first zero byte, or nothing
fprintf_s(name) == {name, ObjectBytes, ""}

\* Emulator::save_state: the files it can write. A number is a line of
\* digits; a breakpoint is a line of two fields separated by one space
save_state(e) ==
  LET n == Len(e.breakpoints_v)
      printed == UNION {fprintf_s(e.breakpoints_v[k].name) : k \in 1..n}
  IN  {[exists |-> TRUE,
        total_cycles |-> fprintf_d(e.total_cycles),
        acc |-> fprintf_d(e.state.acc),
        pc |-> fprintf_d(e.state.pc),
        memory |-> [i \in MemIndex |-> fprintf_d(e.state.memory[i])],
        breakpoints |-> [k \in 1..n |->
                           <<fprintf_d(e.breakpoints_v[k].address), w[k]>>]]
       : w \in {v \in [1..n -> printed] :
                  \A k \in 1..n : v[k] \in fprintf_s(e.breakpoints_v[k].name)}}

\* split_str[1] when the line has a single word: a read past the end of the
\* vector (undefined), which yields whatever std::string lies there
OutOfRangeWords == {ObjectBytes, ""}

\* what Emulator::load_state reads from a file written as text: the numbers
\* through std::stoi, a breakpoint line split at white space (`ss >> word`)
\* into split_str, of which it uses split_str[0] and split_str[1]
read_file(text) ==
  LET n == Len(text.breakpoints)
      split_str(k) == SelectSeq(text.breakpoints[k], LAMBDA word : word # "")
  IN  {File(stoi(text.total_cycles), stoi(text.acc), stoi(text.pc),
            [i \in MemIndex |-> stoi(text.memory[i])],
            [k \in 1..n |->
               BP(stoi(split_str(k)[1]),
                  IF Len(split_str(k)) >= 2 THEN split_str(k)[2] ELSE u[k])])
       : u \in [1..n -> OutOfRangeWords]}

\* a.save_state(f); b.load_state(f); with b the second object
SaveLoad ==
  /\ ctl.at = "idle"
  /\ \E text \in save_state(This) : \E file \in read_file(text) :
       LET r == load_state(other.state, other.total_cycles, file) IN
       /\ other' = [state |-> r.state, breakpoints_v |-> r.bps,
                    total_cycles |-> r.total_cycles]
       /\ ret' = [op |-> "load_state", value |-> r.ret]
  /\ obs' = Observe("save_load", 0, NullInstr)
  /\ UNCHANGED <<state, breakpoints_v, total_cycles, ctl, loads>>

SaveFiles ==
  { File(0, 0, 0, ProgCountdown, <<>>),
    File(1, 0, 0, ProgCountdown, <<BP(4, "UPDATE")>>),
    File(0, 5, 254, ProgAll, <<>>) }
SaveAddressArgs == {2, 16}
SaveNameArgs == {"", "A"}
SaveStepArgs == {1, 2}

Saved == obs.op = "save_load"

SaveNext ==
  \/ obs.op = "init" /\ \E f \in SaveFiles : LoadState(f)
  \/ ~Saved /\ \E a \in SaveAddressArgs, n \in SaveNameArgs : InsertBreakpoint(a, n)
  \/ ~Saved /\ \E a \in SaveAddressArgs : DeleteBreakpointAddress(a)
  \/ ~Saved /\ \E steps \in SaveStepArgs : RunCall(steps)
  \/ RunCycle
  \/ ~Saved /\ SaveLoad

SaveSpec == Init /\ [][SaveNext]_vars

\* ---------------------------------------------------------------------------
\* Vocabulary of the properties
\* ---------------------------------------------------------------------------
IsOdd(x) == x % 2 = 1
InByte(x) == x \in 0..255
\* operation op has returned and nothing was called since
Returned(op) == ctl.at = "idle" /\ ret.op = op
\* the step is one pass of run's loop
CycleStep == ctl.at = "run" /\ Len(obs'.trace) = Len(obs.trace) + 1
LastCycle(o) == o.trace[Len(o.trace)]
\* an active breakpoint is registered for address a
ActiveAt(bps, a) == \E i \in 1..Len(bps) : bps[i].address = a
\* number of instructions the recorded passes executed
Executed(o) == Cardinality({k \in 1..Len(o.trace) : o.trace[k].executed})
\* the pass changed nothing the caller can see
CycleChangedNothing ==
  /\ state' = state
  /\ total_cycles' = total_cycles
  /\ breakpoints_v' = breakpoints_v
RunReturns(v) == ctl'.at = "idle" /\ ret'.op = "run" /\ ret'.value = v

\* ---------------------------------------------------------------------------
\* C1: total_cycles counts executed instructions. Every pass of run's loop that
\* executes an instruction raises total_cycles by exactly one and a pass that
\* aborts (odd pc, unknown opcode) leaves it alone; when run(steps) returns,
\* total_cycles is its value at the call plus the number of instructions
\* executed, a number between 0 and steps; and no run call or breakpoint
\* operation ever lowers total_cycles.
\* ---------------------------------------------------------------------------
C1_CyclesCountExecuted ==
  [][ /\ (CycleStep /\ LastCycle(obs').executed)
           => (total_cycles' > total_cycles /\ total_cycles' - total_cycles = 1)
      /\ (CycleStep /\ ~LastCycle(obs').executed) => total_cycles' = total_cycles
      /\ (loads' = loads) => total_cycles' >= total_cycles
      /\ (ctl'.at = "idle" /\ ret'.op = "run" /\ obs'.steps >= 0)
           => /\ total_cycles' >= obs'.cycles0
              /\ total_cycles' - obs'.cycles0 = Executed(obs')
              /\ Executed(obs') \in 0..obs'.steps
    ]_vars

\* ---------------------------------------------------------------------------
\* C2: alignment error. Whenever a pass of run's loop starts with an odd pc,
\* run returns 0 at once and the pass changes nothing (accumulator, pc, memory,
\* total_cycles, breakpoints), whatever memory holds.
\* ---------------------------------------------------------------------------
C2_OddPcAborts ==
  [][ (ctl.at = "run" /\ IsOdd(state.pc))
        => (RunReturns(0) /\ CycleChangedNothing) ]_vars

\* ---------------------------------------------------------------------------
\* C3: decode error. Whenever a pass of run's loop starts with an even pc and
\* memory[pc] is a byte in 8..255, run returns 0 at once and the pass changes
\* nothing.
\* ---------------------------------------------------------------------------
C3_UnknownOpcodeAborts ==
  [][ (/\ ctl.at = "run"
       /\ state.pc \in MemIndex
       /\ ~IsOdd(state.pc)
       /\ state.memory[state.pc] \in 8..255)
        => (RunReturns(0) /\ CycleChangedNothing) ]_vars

\* run returned 0 from a pass that fetched an unknown opcode at an even pc
C3_Witness ==
  /\ Returned("run")
  /\ ret.value = 0
  /\ obs.steps >= 1
  /\ Len(obs.trace) >= 2
  /\ state.pc = 2
  /\ state.memory[state.pc] = 8
  /\ LastCycle(obs).fetched
  /\ ~LastCycle(obs).executed

\* ---------------------------------------------------------------------------
\* C4: breakpoint stop. After each executed instruction the new pc is compared
\* with the active breakpoints: the first executed instruction of a run call
\* that leaves pc on an active breakpoint's address makes run return 1 at once
\* with pc at that address, so no later pass runs in that call even if steps
\* remain (no earlier pass of the call left pc on a breakpoint).
\* ---------------------------------------------------------------------------
C4_BreakpointStops ==
  [][ (/\ CycleStep
       /\ LastCycle(obs').executed
       /\ ActiveAt(breakpoints_v, state'.pc))
        => /\ RunReturns(1)
           /\ state'.pc = LastCycle(obs').pc_after
           /\ \A k \in 1..Len(obs.trace) :
                ~ActiveAt(breakpoints_v, obs.trace[k].pc_after) ]_vars

\* run(3) stopped on the breakpoint at 4 after two instructions
C4_Witness ==
  /\ Returned("run")
  /\ ret.value = 1
  /\ obs.steps = 3
  /\ Len(obs.trace) = 2
  /\ Executed(obs) = 2
  /\ state.pc = 4
  /\ ActiveAt(breakpoints_v, 4)

\* ---------------------------------------------------------------------------
\* C5: step limit. If none of the passes of run(steps), steps >= 1, starts with
\* an odd pc or fetches an unknown opcode, and no executed instruction leaves
\* pc on an active breakpoint, then exactly `steps` instructions execute,
\* total_cycles grows by `steps` and run returns 1.
\* ---------------------------------------------------------------------------
C5_StepLimit ==
  (/\ Returned("run")
   /\ obs.steps >= 1
   /\ \A k \in 1..Len(obs.trace) :
        /\ ~IsOdd(obs.trace[k].pc)
        /\ obs.trace[k].fetched
        /\ obs.trace[k].opcode \in 0..7
        /\ ~ActiveAt(breakpoints_v, obs.trace[k].pc_after))
    => /\ Len(obs.trace) = obs.steps
       /\ Executed(obs) = obs.steps
       /\ total_cycles > obs.cycles0
       /\ total_cycles - obs.cycles0 = obs.steps
       /\ ret.value = 1

\* ---------------------------------------------------------------------------
\* C6: run(0) returns 1 from every state, also with an odd pc or an unknown
\* opcode at pc, and changes neither total_cycles, accumulator, pc, memory nor
\* the breakpoints.
\* ---------------------------------------------------------------------------
C6_RunZero ==
  [][ (ctl.at = "idle" /\ obs'.op = "run" /\ obs'.steps = 0)
        => (RunReturns(1) /\ CycleChangedNothing) ]_vars

\* run(0) returned 1 on the odd pc 5, after run(1) had returned 0 there
C6_Witness ==
  /\ Returned("run")
  /\ obs.steps = 0
  /\ ret.value = 1
  /\ state.pc = 5
  /\ total_cycles = 1
  /\ obs.trace = <<>>

\* the step is one direct call of execute on a newly constructed instruction
ExecuteStep == obs.op = "init" /\ obs'.op = "execute"
\* bit i of the byte x
Bit(x, i) == (x \div (2 ^ i)) % 2
\* the cell a constructor argument a addresses
Cell(a) == a % 256

\* ---------------------------------------------------------------------------
\* C7: after execute of any of the eight instructions with any address operand
\* from a state whose accumulator and pc are in [0,255], accumulator and pc are
\* again in [0,255]; and so are they in every state a run call passes through
\* when it starts from such a state.
\* ---------------------------------------------------------------------------
C7_ExecuteKeepsRange ==
  (obs.op \in {"execute", "run"} /\ InByte(obs.acc0) /\ InByte(obs.pc0))
    => (InByte(state.acc) /\ InByte(state.pc))

\* ADD 64 on accumulator 5, operand 255, pc 254: both wrapped into range
C7_Witness ==
  /\ obs.op = "execute"
  /\ obs.instr = [opcode |-> ADD, address |-> 64]
  /\ obs.acc0 = 5
  /\ obs.pc0 = 254
  /\ state.memory[64] = 255
  /\ state.acc = 4
  /\ state.pc = 0

\* ---------------------------------------------------------------------------
\* C8: for all accumulator values v and memory bytes m in [0,255] and every
\* address a with memory[a] = m, after execute ADD leaves (v + m) mod 256 in the
\* accumulator, AND the bitwise and of v and m, ORR their bitwise or, XOR their
\* bitwise exclusive or, and LDR leaves m.
\* ---------------------------------------------------------------------------
C8_ArithmeticResults ==
  [][ (ExecuteStep /\ InByte(state.acc))
        => LET v == state.acc
               m == state.memory[Cell(obs'.instr.address)]
               r == state'.acc
               op == obs'.instr.opcode
           IN  /\ InByte(m) /\ InByte(r)
               /\ op = ADD => r = (v + m) % 256
               /\ op = AND => \A i \in 0..7 : Bit(r, i) = Bit(v, i) * Bit(m, i)
               /\ op = ORR => \A i \in 0..7 :
                                Bit(r, i) = Bit(v, i) + Bit(m, i) - Bit(v, i) * Bit(m, i)
               /\ op = XOR => \A i \in 0..7 : Bit(r, i) = (Bit(v, i) + Bit(m, i)) % 2
               /\ op = LDR => r = m ]_vars

\* XOR 511 on accumulator 170 with 255 in cell 255 left 85
C8_Witness ==
  /\ obs.op = "execute"
  /\ obs.instr = [opcode |-> XOR, address |-> 511]
  /\ obs.acc0 = 170
  /\ state.memory[255] = 255
  /\ state.acc = 85

\* ---------------------------------------------------------------------------
\* C9: executing ADD, AND, ORR, XOR or LDR with any address a leaves every
\* memory cell unchanged and sets pc to (pc_before + 2) mod 256; executing STR
\* with address a writes the accumulator to memory[a], changes no other cell,
\* leaves the accumulator unchanged and sets pc to (pc_before + 2) mod 256.
\* ---------------------------------------------------------------------------
C9_NonJumpEffect ==
  [][ ExecuteStep
        => LET op == obs'.instr.opcode
               a == Cell(obs'.instr.address)
           IN  /\ op \in {ADD, AND, ORR, XOR, LDR}
                    => /\ state'.memory = state.memory
                       /\ state'.pc = (state.pc + 2) % 256
               /\ op = STR
                    => /\ state'.memory = [state.memory EXCEPT ![a] = state.acc]
                       /\ state'.acc = state.acc
                       /\ state'.pc = (state.pc + 2) % 256 ]_vars

\* ---------------------------------------------------------------------------
\* C10: execute of a JMP constructed with any integer address a sets pc to
\* a mod 256 whatever the prior pc (also for a = 0, 1 and 256) and leaves the
\* accumulator and memory unchanged.
\* ---------------------------------------------------------------------------
C10_JmpEffect ==
  [][ (ExecuteStep /\ obs'.instr.opcode = JMP)
        => /\ state'.pc = Cell(obs'.instr.address)
           /\ state'.acc = state.acc
           /\ state'.memory = state.memory ]_vars

\* ---------------------------------------------------------------------------
\* C11: execute of a JNE constructed with address a sets pc to a mod 256 when
\* the accumulator is non-zero at the call and to (pc_before + 2) mod 256 when
\* it is 0; in both cases the accumulator and memory are unchanged.
\* ---------------------------------------------------------------------------
C11_JneEffect ==
  [][ (ExecuteStep /\ obs'.instr.opcode = JNE)
        => /\ state.acc # 0 => state'.pc = Cell(obs'.instr.address)
           /\ state.acc = 0 => state'.pc = (state.pc + 2) % 256
           /\ state'.acc = state.acc
           /\ state'.memory = state.memory ]_vars

\* ---------------------------------------------------------------------------
\* C12: decode is total over bytes. decode of the instruction data (o, a) read
\* at pc is an instruction of class ADD, AND, ORR, XOR, LDR, STR, JMP, JNE for
\* o = 0..7 respectively, carrying exactly the address byte a, and is NULL for
\* every opcode byte o in 8..255 with every address byte a.
\* ---------------------------------------------------------------------------
C12_DecodeTotal ==
  (obs.op = "decode" /\ state.pc \in MemIndex /\ state.pc + 1 \in MemIndex)
    => LET o == state.memory[state.pc]
           a == state.memory[state.pc + 1]
           classes == <<ADD, AND, ORR, XOR, LDR, STR, JMP, JNE>>
       IN  /\ o \in 0..7 => /\ obs.instr # NullInstr
                            /\ ret.value = 1
                            /\ obs.instr.opcode = classes[o + 1]
                            /\ obs.instr.address = a
           /\ o \in 8..255 => (obs.instr = NullInstr /\ ret.value = 0)

\* decode of opcode byte 8 with address byte 255 returned NULL
C12_Witness ==
  /\ obs.op = "decode"
  /\ state.pc = 0
  /\ state.memory[0] = NUM_OPCODES
  /\ state.memory[1] = 255
  /\ obs.instr = NullInstr
  /\ ret.value = 0

\* ---------------------------------------------------------------------------
\* C13: decode/execute equivalence. For each of the 8 opcodes and every address
\* byte, a pass of run that fetches the encoding (opcode, address) at pc,
\* decodes and executes it leaves the same accumulator, pc and memory as
\* constructing that instruction class directly with the same address and
\* executing it on an equal state.
\* ---------------------------------------------------------------------------
C13_DecodeExecuteEquivalence ==
  [][ (/\ CycleStep
       /\ state.pc \in MemIndex
       /\ ~IsOdd(state.pc)
       /\ state.memory[state.pc] \in 0..7)
        => /\ LastCycle(obs').executed
           /\ state' = execute(Instruction(state.memory[state.pc],
                                           state.memory[state.pc + 1]), state) ]_vars

\* run(1) executed STR 200 read at pc 0: the accumulator 85 is in cell 200
C13_Witness ==
  /\ Returned("run")
  /\ obs.steps = 1
  /\ obs.pc0 = 0
  /\ Len(obs.trace) = 1
  /\ LastCycle(obs).executed
  /\ state.memory[0] = STR
  /\ state.memory[1] = 200
  /\ state.memory[200] = 85
  /\ state.pc = 2

\* the step is a call of insert_breakpoint, of either delete_breakpoint, of
\* delete_breakpoint(addr_t), of delete_breakpoint(std::string)
InsertStep == ctl.at = "idle" /\ obs'.op = "insert_breakpoint"
DeleteStep == ctl.at = "idle" /\ obs'.op \in {"delete_breakpoint", "delete_breakpoint_name"}
DeleteAddressStep == ctl.at = "idle" /\ obs'.op = "delete_breakpoint"
DeleteNameStep == ctl.at = "idle" /\ obs'.op = "delete_breakpoint_name"
\* num_breakpoints()
num_breakpoints(bps) == Len(bps)
\* some active breakpoint has the name n
ActiveNamed(bps, n) == \E i \in 1..Len(bps) : bps[i].name = n

\* ---------------------------------------------------------------------------
\* C14: insert_breakpoint(address, name) on a registry below capacity succeeds
\* exactly when no active breakpoint has the address (address mod 256) and none
\* has exactly the name (case-sensitive, the empty string an ordinary name); on
\* success the new breakpoint is appended after all existing ones and
\* num_breakpoints() grows by 1; on failure the registry is unchanged.
\* ---------------------------------------------------------------------------
C14_InsertBreakpoint ==
  [][ (InsertStep /\ num_breakpoints(breakpoints_v) < MAX_INSTRUCTIONS)
        => LET a == obs'.address
               n == obs'.name
               free == /\ ~ActiveAt(breakpoints_v, a % 256)
                       /\ ~ActiveNamed(breakpoints_v, n)
           IN  /\ ret'.value = IF free THEN 1 ELSE 0
               /\ free => /\ breakpoints_v' =
                               Append(breakpoints_v, [address |-> a % 256, name |-> n])
                          /\ num_breakpoints(breakpoints_v') =
                               num_breakpoints(breakpoints_v) + 1
               /\ ~free => breakpoints_v' = breakpoints_v ]_vars

\* insert_breakpoint(258, "") succeeded next to a breakpoint named "a" at 4
C14_Witness ==
  /\ Returned("insert_breakpoint")
  /\ ret.value = 1
  /\ obs.address = 258
  /\ obs.name = ""
  /\ breakpoints_v = <<[address |-> 4, name |-> "a"], [address |-> 2, name |-> ""]>>

\* ---------------------------------------------------------------------------
\* C15: capacity bound. insert_breakpoint on a registry that already holds 128
\* (MEMORY_SIZE / INSTRUCTION_SIZE) breakpoints fails and changes nothing, so
\* num_breakpoints() never exceeds 128.
\* ---------------------------------------------------------------------------
C15_CapacityBound ==
  [][ /\ (InsertStep /\ num_breakpoints(breakpoints_v) = MAX_INSTRUCTIONS)
           => (ret'.value = 0 /\ breakpoints_v' = breakpoints_v)
      /\ num_breakpoints(breakpoints_v') <= MAX_INSTRUCTIONS ]_vars

\* ---------------------------------------------------------------------------
\* C16: registry uniqueness. After any sequence of insert_breakpoint,
\* delete_breakpoint and load_state calls no two active breakpoints have the
\* same stored address, no two have the same name (compared exactly), and
\* every stored address is in [0,255].
\* ---------------------------------------------------------------------------
C16_RegistryUnique ==
  /\ \A i, j \in 1..Len(breakpoints_v) :
       i # j => /\ breakpoints_v[i].address # breakpoints_v[j].address
                /\ breakpoints_v[i].name # breakpoints_v[j].name
  /\ \A i \in 1..Len(breakpoints_v) : InByte(breakpoints_v[i].address)

\* insert_breakpoint(-252, "A") stored address 4 next to the entry "a" at 2
C16_Witness ==
  /\ Returned("insert_breakpoint")
  /\ ret.value = 1
  /\ obs.address = -252
  /\ breakpoints_v = <<[address |-> 2, name |-> "a"], [address |-> 4, name |-> "A"]>>

\* addresses and names looked up in the lookup properties
ProbeAddresses == (-300)..600
ProbeNames == {"", "A", "a", "B", "UPDATE", "update"}
\* multiples of 256 added to a stored address
WrapCounts == 0..3

\* ---------------------------------------------------------------------------
\* C17: lookup consistency. For every active breakpoint with stored address a
\* and name n, find_breakpoint(a + 256 k), k >= 0, and find_breakpoint(n) both
\* return that same registry entry; for an address whose value mod 256 is not
\* registered, or a name that is not registered, find_breakpoint returns NULL.
\* A find_breakpoint call made by the user returns accordingly.
\* ---------------------------------------------------------------------------
C17_LookupConsistent ==
  /\ \A i \in 1..Len(breakpoints_v) :
       /\ \A k \in WrapCounts :
            find_breakpoint_address(breakpoints_v, breakpoints_v[i].address + 256 * k) = i
       /\ find_breakpoint_name(breakpoints_v, breakpoints_v[i].name) = i
  /\ \A a \in ProbeAddresses :
       ~ActiveAt(breakpoints_v, a % 256)
         => find_breakpoint_address(breakpoints_v, a) = NULL
  /\ \A n \in ProbeNames :
       ~ActiveNamed(breakpoints_v, n) => find_breakpoint_name(breakpoints_v, n) = NULL
  /\ (ctl.at = "idle" /\ obs.op = "find_breakpoint")
       => IF ActiveAt(breakpoints_v, obs.address % 256)
            THEN /\ ret.value \in 1..Len(breakpoints_v)
                 /\ breakpoints_v[ret.value].address = obs.address % 256
            ELSE ret.value = NULL
  /\ (ctl.at = "idle" /\ obs.op = "find_breakpoint_name")
       => IF ActiveNamed(breakpoints_v, obs.name)
            THEN /\ ret.value \in 1..Len(breakpoints_v)
                 /\ breakpoints_v[ret.value].name = obs.name
            ELSE ret.value = NULL

\* find_breakpoint(258) returned the second entry, stored at 2
C17_Witness ==
  /\ ctl.at = "idle"
  /\ obs.op = "find_breakpoint"
  /\ obs.address = 258
  /\ ret.value = 2
  /\ Len(breakpoints_v) = 2
  /\ breakpoints_v[2].address = 2
  /\ find_breakpoint_name(breakpoints_v, breakpoints_v[2].name) = 2

\* the vector bps without its element i
Without(bps, i) == [j \in 1..(Len(bps) - 1) |-> IF j < i THEN bps[j] ELSE bps[j + 1]]
\* the entry a delete_breakpoint call with the recorded argument aims at
Aimed(o, b) ==
  IF o.op = "delete_breakpoint" THEN b.address = o.address % 256 ELSE b.name = o.name

\* ---------------------------------------------------------------------------
\* C18: after a successful delete_breakpoint (by address or by name) the
\* deleted breakpoint is found neither by its address nor by its name,
\* num_breakpoints() is one less, every other breakpoint is still found by both
\* its address and its name (in the order they had), a second delete of the
\* same breakpoint fails, and the same (address, name) pair can be inserted
\* again successfully.
\* ---------------------------------------------------------------------------
C18_DeleteBreakpoint ==
  [][ (DeleteStep /\ ret'.value = 1)
        => \E i \in 1..Len(breakpoints_v) :
             LET d == breakpoints_v[i]
                 after == breakpoints_v'
             IN  /\ Aimed(obs', d)
                 /\ num_breakpoints(after) = num_breakpoints(breakpoints_v) - 1
                 /\ after = Without(breakpoints_v, i)
                 /\ find_breakpoint_address(after, d.address) = NULL
                 /\ find_breakpoint_name(after, d.name) = NULL
                 /\ \A j \in 1..Len(breakpoints_v) :
                      j # i =>
                        LET b == breakpoints_v[j]
                            fa == find_breakpoint_address(after, b.address)
                            fn == find_breakpoint_name(after, b.name)
                        IN  fa # NULL /\ fn = fa /\ after[fa] = b
                 /\ delete_breakpoint_address(after, d.address).ret = 0
                 /\ delete_breakpoint_address(after, obs'.address).ret = 0
                 /\ delete_breakpoint_name(after, d.name).ret = 0
                 /\ insert_breakpoint(after, d.address, d.name) =
                      [bps |-> Append(after, d), ret |-> 1] ]_vars

\* delete_breakpoint("A") removed the first of two entries; "UPDATE" moved down
C18_Witness ==
  /\ Returned("delete_breakpoint")
  /\ obs.op = "delete_breakpoint_name"
  /\ obs.name = "A"
  /\ ret.value = 1
  /\ breakpoints_v = <<[address |-> 4, name |-> "UPDATE"]>>
  /\ loads = 1

\* ---------------------------------------------------------------------------
\* C19: delete_breakpoint with an address (taken mod 256) or a name that
\* matches no active breakpoint returns 0 and has no side effect: the number
\* and order of the entries, hence every find_breakpoint result, are unchanged.
\* ---------------------------------------------------------------------------
C19_DeleteMissing ==
  [][ (/\ DeleteStep
       /\ \A i \in 1..Len(breakpoints_v) : ~Aimed(obs', breakpoints_v[i]))
        => /\ ret'.value = 0
           /\ breakpoints_v' = breakpoints_v
           /\ state' = state /\ total_cycles' = total_cycles ]_vars

\* delete_breakpoint("a") returned 0 on a registry that holds "A"
C19_Witness ==
  /\ Returned("delete_breakpoint")
  /\ obs.op = "delete_breakpoint_name"
  /\ obs.name = "a"
  /\ ret.value = 0
  /\ Len(breakpoints_v) = 2
  /\ ActiveNamed(breakpoints_v, "A")

\* ---------------------------------------------------------------------------
\* C20: delete_breakpoint(address) locates its target exactly as
\* find_breakpoint(address) does, with the address masked to 8 bits: for every
\* integer address (also 258 for a breakpoint stored at 2) it succeeds and
\* removes the entry if and only if find_breakpoint(address) returns an entry.
\* ---------------------------------------------------------------------------
C20_DeleteMasksAddress ==
  [][ DeleteAddressStep
        => LET found == find_breakpoint_address(breakpoints_v, obs'.address)
           IN  IF found # NULL
                 THEN /\ ret'.value = 1
                      /\ breakpoints_v' = Without(breakpoints_v, found)
                 ELSE /\ ret'.value = 0
                      /\ breakpoints_v' = breakpoints_v ]_vars

\* ---------------------------------------------------------------------------
\* C21: stable removal. delete_breakpoint preserves the relative order of the
\* surviving breakpoints: the entries before the deleted one keep their
\* positions, the entries after it move down by exactly one, and the registry
\* sequence is the previous sequence with that single entry removed.
\* ---------------------------------------------------------------------------
C21_StableRemoval ==
  [][ (DeleteStep /\ breakpoints_v' # breakpoints_v)
        => \E i \in 1..Len(breakpoints_v) :
             /\ Len(breakpoints_v') = Len(breakpoints_v) - 1
             /\ \A j \in 1..(i - 1) : breakpoints_v'[j] = breakpoints_v[j]
             /\ \A j \in (i + 1)..Len(breakpoints_v) :
                  breakpoints_v'[j - 1] = breakpoints_v[j]
             /\ ret'.value = 1 ]_vars

\* delete_breakpoint(0) removed the first of the three entries 0, 1, 2: the
\* other two moved down and kept their order
C21_Witness ==
  /\ Returned("delete_breakpoint")
  /\ obs.op = "delete_breakpoint"
  /\ obs.address = 0
  /\ ret.value = 1
  /\ Len(breakpoints_v) = 2
  /\ breakpoints_v[1].address = 1
  /\ breakpoints_v[2].address = 2

\* ---------------------------------------------------------------------------
\* C22: insert/delete round trip. Inserting a new breakpoint and then deleting
\* it, by the address or by the name it was inserted with, returns the registry
\* to its contents before the insert: the delete succeeds and num_breakpoints()
\* and every find_breakpoint result are as before the insert.
\* ---------------------------------------------------------------------------
C22_InsertDeleteRoundTrip ==
  [][ (/\ DeleteStep
       /\ obs.op = "insert_breakpoint"
       /\ ret.value = 1
       /\ \/ (DeleteAddressStep /\ obs'.address = obs.address)
          \/ (DeleteNameStep /\ obs'.name = obs.name))
        => /\ ret'.value = 1
           /\ breakpoints_v' = SubSeq(breakpoints_v, 1, Len(breakpoints_v) - 1) ]_vars

C24_CopyAssignment ==
  [][ /\ (ctl.at = "idle" /\ obs'.op = "copy_assign")
           => /\ state' = other.state
              /\ total_cycles' = other.total_cycles
              /\ breakpoints_v' = other.breakpoints_v
              /\ other' = other
      /\ (ctl.at = "idle" /\ obs'.op = "self_assign")
           => /\ state' = state
              /\ total_cycles' = total_cycles
              /\ breakpoints_v' = breakpoints_v
              /\ other' = other ]_vars

\* the file has the values load_state rejects, as listed in C26
NegativeCycles(f) == f.total_cycles < 0
AccOutOfRange(f) == ~InByte(f.acc)
PcOutOfRange(f) == ~InByte(f.pc)
MemoryOutOfRange(f) == \E i \in MemIndex : ~InByte(f.memory[i])
BreakpointOutOfRange(f) ==
  \E i \in 1..Len(f.breakpoints) : ~InByte(f.breakpoints[i].address)
DuplicatedAddress(f) ==
  \E i, j \in 1..Len(f.breakpoints) :
    i < j /\ f.breakpoints[i].address = f.breakpoints[j].address
DuplicatedName(f) ==
  \E i, j \in 1..Len(f.breakpoints) :
    i < j /\ f.breakpoints[i].name = f.breakpoints[j].name

\* ---------------------------------------------------------------------------
\* C25: a successful load_state sets total_cycles, acc, pc and all 256 memory
\* bytes to the file's values and makes the registry exactly the file's
\* breakpoint records, in file order; every breakpoint registered before the
\* load is gone.
\* ---------------------------------------------------------------------------
C25_LoadStateSuccess ==
  [][ \A f \in LoadFiles :
        (LoadState(f) /\ ret'.value = 1)
          => /\ total_cycles' = f.total_cycles
             /\ state'.acc = f.acc
             /\ state'.pc = f.pc
             /\ \A i \in MemIndex : state'.memory[i] = f.memory[i]
             /\ num_breakpoints(breakpoints_v') = Len(f.breakpoints)
             /\ \A i \in 1..Len(f.breakpoints) :
                  /\ breakpoints_v'[i].address = f.breakpoints[i].address
                  /\ breakpoints_v'[i].name = f.breakpoints[i].name ]_vars

\* a file with two breakpoint records was loaded: the registry holds them in
\* file order
C25_Witness ==
  /\ Returned("load_state")
  /\ ret.value = 1
  /\ total_cycles = 2
  /\ state.acc = 9
  /\ state.pc = 6
  /\ state.memory = ProgCountdown
  /\ breakpoints_v = <<Breakpoint(8, "EXIT"), Breakpoint(2, "A")>>

\* ---------------------------------------------------------------------------
\* C26: load_state returns 0 whenever the file gives a negative total_cycles,
\* an acc outside [0,255], a pc outside [0,255], a memory byte outside [0,255],
\* a breakpoint address outside [0,255], two breakpoint records with the same
\* address, or two with the same name.
\* ---------------------------------------------------------------------------
C26_LoadStateRejects ==
  [][ \A f \in LoadFiles :
        (/\ LoadState(f)
         /\ \/ NegativeCycles(f)
            \/ AccOutOfRange(f)
            \/ PcOutOfRange(f)
            \/ MemoryOutOfRange(f)
            \/ BreakpointOutOfRange(f)
            \/ DuplicatedAddress(f)
            \/ DuplicatedName(f))
          => ret'.value = 0 ]_vars

\* a load failed on its second breakpoint record, whose address is 256
C26_Witness ==
  /\ Returned("load_state")
  /\ ret.value = 0
  /\ breakpoints_v = <<Breakpoint(6, "a")>>
  /\ state.memory = ZeroMemory

\* ---------------------------------------------------------------------------
\* C27: loading a file with a duplicated breakpoint address fails and leaves
\* the registry empty, not populated with the records that preceded the
\* duplicate.
\* ---------------------------------------------------------------------------
C27_DuplicateLeavesEmpty ==
  [][ \A f \in LoadFiles :
        (LoadState(f) /\ DuplicatedAddress(f))
          => /\ ret'.value = 0
             /\ breakpoints_v' = <<>> ]_vars

\* ---------------------------------------------------------------------------
\* C28: end-to-end countdown loop. For the program LDR counter; ADD a cell
\* holding 255; STR counter; JNE loop start, followed by the exit address, with
\* the counter initially c >= 1 and a breakpoint only at the exit address, run
\* with a budget of at least 4c steps stops with pc at the exit address,
\* returns 1, and total_cycles has increased by exactly 4c, the number of
\* instructions executed.
\* ---------------------------------------------------------------------------
C28_CountdownLoop ==
  (Returned("run") /\ obs.op = "run")
    => LET c == state.memory[34] IN
       /\ obs.steps >= 4 * c
       /\ state.pc = 8
       /\ ret.value = 1
       /\ Executed(obs) = 4 * c
       /\ total_cycles > obs.cycles0
       /\ total_cycles - obs.cycles0 = 4 * c

\* the step is a call of to_string on an instruction of class opcode
ToStringStep(opcode) ==
  ctl.at = "idle" /\ obs'.op = "to_string" /\ obs'.instr.opcode = opcode
\* the address of the instruction to_string was called on, in decimal
Shown(o) == ToString(Cell(o.instr.address))

\* ---------------------------------------------------------------------------
\* C29 (as the code has it): to_string() of each instruction variant with
\* address a returns, with a in decimal, "ADD: ACC <- ACC + [a]",
\* "AND: ACC <- ACC & [a]", "ORR: ACC <- ACC | [a]", "XOR: ACC <- ACC ^ [a]",
\* "LDR: ACC <- [a]", "STR: ACC -> [a]", and, with two spaces after PC,
\* "JMP: PC  <- a" and "JNE: PC  <- a if ACC != 0".
\* ---------------------------------------------------------------------------
C29_ToStringFormats ==
  [][ LET a == Shown(obs') IN
      /\ ToStringStep(ADD) => ret'.value = "ADD: ACC <- ACC + [" \o a \o "]"
      /\ ToStringStep(AND) => ret'.value = "AND: ACC <- ACC & [" \o a \o "]"
      /\ ToStringStep(ORR) => ret'.value = "ORR: ACC <- ACC | [" \o a \o "]"
      /\ ToStringStep(XOR) => ret'.value = "XOR: ACC <- ACC ^ [" \o a \o "]"
      /\ ToStringStep(LDR) => ret'.value = "LDR: ACC <- [" \o a \o "]"
      /\ ToStringStep(STR) => ret'.value = "STR: ACC -> [" \o a \o "]"
      /\ ToStringStep(JMP) => ret'.value = "JMP: PC  <- " \o a
      /\ ToStringStep(JNE) => ret'.value = "JNE: PC  <- " \o a \o " if ACC != 0" ]_vars

\* to_string of Ijne(300) returned the description with the masked address 44
C29_Witness ==
  /\ Returned("to_string")
  /\ obs.op = "to_string"
  /\ obs.instr = [opcode |-> JNE, address |-> 300]
  /\ ret.value = "JNE: PC  <- 44 if ACC != 0"

\* C29 as stated: the formats of the table, "JMP: PC <- a" and
\* "JNE: PC <- a if ACC != 0" with one space after PC
C29_TableFormats ==
  [][ LET a == Shown(obs') IN
      /\ ToStringStep(ADD) => ret'.value = "ADD: ACC <- ACC + [" \o a \o "]"
      /\ ToStringStep(AND) => ret'.value = "AND: ACC <- ACC & [" \o a \o "]"
      /\ ToStringStep(ORR) => ret'.value = "ORR: ACC <- ACC | [" \o a \o "]"
      /\ ToStringStep(XOR) => ret'.value = "XOR: ACC <- ACC ^ [" \o a \o "]"
      /\ ToStringStep(LDR) => ret'.value = "LDR: ACC <- [" \o a \o "]"
      /\ ToStringStep(STR) => ret'.value = "STR: ACC -> [" \o a \o "]"
      /\ ToStringStep(JMP) => ret'.value = "JMP: PC <- " \o a
      /\ ToStringStep(JNE) => ret'.value = "JNE: PC <- " \o a \o " if ACC != 0" ]_vars

\* the step is a direct call of _execute / a call of the execute wrapper
RawStep == obs.op = "init" /\ obs'.op = "_execute"
WrappedStep == obs.op = "init" /\ obs'.op = "execute"
\* the bits of x above the low 8 (two's complement)
HighBits(x) == x \div 256
\* pc as _execute of the instruction called leaves it
RawPc(o, s) ==
  IF o.instr.opcode = JMP \/ (o.instr.opcode = JNE /\ s.acc # 0)
    THEN Cell(o.instr.address) - 2
  ELSE s.pc

\* ---------------------------------------------------------------------------
\* C30: the instruction-specific _execute does no bookkeeping. For ADD, AND,
\* ORR, XOR, LDR and STR it leaves pc unchanged and does not mask the
\* accumulator (ADD on accumulator 5 with operand byte 255 leaves 260); for JMP
\* and a taken JNE it stores address - 2 in pc without masking (-2 for address
\* 0); the +2 advance and the 8-bit masking happen only in the execute wrapper.
\* ---------------------------------------------------------------------------
C30_RawExecute ==
  [][ LET op == obs'.instr.opcode
          a == Cell(obs'.instr.address)
          m == state.memory[a]
      IN
      /\ RawStep =>
           /\ state'.pc = RawPc(obs', state)
           /\ op = ADD => state'.acc = state.acc + m
           /\ op = AND => HighBits(state'.acc) = 0
           /\ op \in {ORR, XOR} => HighBits(state'.acc) = HighBits(state.acc)
           /\ op = AND => \A i \in 0..7 : Bit(state'.acc, i) = Bit(state.acc, i) * Bit(m, i)
           /\ op = ORR => \A i \in 0..7 :
                Bit(state'.acc, i) = IF Bit(state.acc, i) + Bit(m, i) > 0 THEN 1 ELSE 0
           /\ op = XOR => \A i \in 0..7 :
                Bit(state'.acc, i) = (Bit(state.acc, i) + Bit(m, i)) % 2
           /\ op = LDR => state'.acc = m
           /\ op \in {STR, JMP, JNE} => state'.acc = state.acc
           /\ op = STR => state'.memory = [state.memory EXCEPT ![a] = state.acc % 256]
           /\ op # STR => state'.memory = state.memory
      /\ WrappedStep =>
           /\ state'.pc = (RawPc(obs', state) + 2) % 256
           /\ InByte(state'.acc) ]_vars

\* Iadd(320)._execute (address 64) on accumulator 5 with memory[64] = 255 left
\* the accumulator 260 and pc 2
C30_Witness ==
  /\ Returned("_execute")
  /\ obs.op = "_execute"
  /\ obs.instr = [opcode |-> ADD, address |-> 320]
  /\ obs.acc0 = 5
  /\ state.memory[64] = 255
  /\ state.acc = 260
  /\ state.pc = 2

\* ---------------------------------------------------------------------------
\* C31: a breakpoint at the pc where run starts does not stop it. run(steps),
\* steps >= 1, called with pc on an active breakpoint and a decodable
\* instruction at pc executes at least one instruction before any breakpoint
\* check; when that instruction is a JMP to its own address, the call (also
\* run(1000)) executes exactly one instruction, returns 1 and leaves pc on the
\* address.
\* ---------------------------------------------------------------------------
C31_StartOnBreakpoint ==
  (/\ Returned("run")
   /\ obs.op = "run"
   /\ obs.steps >= 1
   /\ ActiveAt(breakpoints_v, obs.pc0)
   /\ ~IsOdd(obs.pc0)
   /\ obs.trace[1].opcode \in 0..(NUM_OPCODES - 1))
    => /\ obs.trace[1].executed
       /\ Executed(obs) >= 1
       /\ (state.memory[obs.pc0] = JMP /\ state.memory[obs.pc0 + 1] = obs.pc0)
            => /\ Executed(obs) = 1
               /\ Len(obs.trace) = 1
               /\ ret.value = 1
               /\ state.pc = obs.pc0

\* run(1000) on the idle loop JMP 8 at the breakpointed address 8 returned 1
\* after one instruction, for the third time in a row
C31_Witness ==
  /\ Returned("run")
  /\ obs.steps = 1000
  /\ obs.pc0 = 8
  /\ state.pc = 8
  /\ state.memory[8] = JMP
  /\ state.memory[9] = 8
  /\ ActiveAt(breakpoints_v, 8)
  /\ Executed(obs) = 1
  /\ ret.value = 1
  /\ total_cycles = 3

\* the pass executed a JMP or a taken JNE whose operand is odd
OddJumpStep ==
  /\ CycleStep
  /\ LastCycle(obs').executed
  /\ LastCycle(obs').opcode \in {JMP, JNE}
  /\ IsOdd(LastCycle(obs').pc_after)

\* ---------------------------------------------------------------------------
\* C32: a JMP or taken JNE whose operand is odd executes successfully. The run
\* cycle that executes it increments total_cycles and leaves pc at the odd
\* address, and run(1) returns 1; the alignment error is reported only by the
\* following cycle, which returns 0 without changing pc, accumulator or
\* total_cycles.
\* ---------------------------------------------------------------------------
C32_OddJumpTarget ==
  [][ /\ OddJumpStep
           => /\ total_cycles' > total_cycles
              /\ total_cycles' = total_cycles + 1
              /\ InByte(state.pc)
              /\ state'.pc = state.memory[state.pc + 1]
              /\ (ctl.steps = 1 => RunReturns(1))
      /\ (CycleStep /\ IsOdd(state.pc) /\ InByte(state.pc))
           => /\ RunReturns(0)
              /\ state'.pc = state.pc
              /\ state'.acc = state.acc
              /\ total_cycles' = total_cycles ]_vars

\* ---------------------------------------------------------------------------
\* C33: every run(steps) call terminates. For any memory contents, the idle
\* loop JMP-to-self without a breakpoint included, and any steps >= 0, run
\* eventually returns, having executed at most `steps` instructions.
\* ---------------------------------------------------------------------------
C33_RunTerminates ==
  /\ (ctl.at = "run") ~> (ctl.at = "idle")
  /\ []((Returned("run") /\ obs.op = "run" /\ obs.steps >= 0)
          => Executed(obs) <= obs.steps)

\* run(1000) on the idle loop at 8, no breakpoint registered, returned 1 after
\* 1000 instructions
C33_Witness ==
  /\ Returned("run")
  /\ obs.steps = 1000
  /\ breakpoints_v = <<>>
  /\ state.pc = 8
  /\ state.memory[8] = JMP
  /\ Executed(obs) = 1000
  /\ ret.value = 1

\* ---------------------------------------------------------------------------
\* C34: in every state reachable through the Emulator's public operations
\* (construction, load_state whether it succeeds or fails, run, breakpoint
\* insert and delete), read_acc() and read_pc() are in [0,255].
\* ---------------------------------------------------------------------------
C34_RegistersInRange ==
  ctl.at = "idle" => (InByte(state.acc) /\ InByte(state.pc))

\* ---------------------------------------------------------------------------
\* C35: soundness of run's result for steps >= 1. If run returns 0, then at
\* return pc is odd or memory[pc] is an opcode byte >= 8; if run returns 1
\* after executing fewer than `steps` instructions, then at return pc equals the
\* address of an active breakpoint (is_breakpoint() is 1).
\* ---------------------------------------------------------------------------
C35_RunResultSound ==
  (Returned("run") /\ obs.op = "run" /\ obs.steps >= 1)
    => /\ ret.value = 0
            => \/ IsOdd(state.pc)
               \/ (state.pc \in MemIndex /\ state.memory[state.pc] >= NUM_OPCODES)
       /\ (ret.value = 1 /\ Executed(obs) < obs.steps)
            => ActiveAt(breakpoints_v, state.pc)

\* ---------------------------------------------------------------------------
\* C36: the error state is sticky. Once a run call has returned 0, and as long
\* as only run calls and breakpoint insertions, deletions and lookups follow,
\* every pass of a further run(m), m >= 1, returns 0 at once and changes
\* neither acc, pc, memory, total_cycles nor the breakpoint list.
C36_ErrorSticky ==
  [][(CycleStep /\ obs.op = "run" /\ obs.failed)
       => (RunReturns(0) /\ CycleChangedNothing)]_vars

C38_FetchInBounds ==
  [][(CycleStep /\ obs.op = "run" /\ InByte(obs.pc0) /\ LastCycle(obs').fetched)
       => /\ LastCycle(obs').pc = state.pc
          /\ ~IsOdd(state.pc)
          /\ state.pc \in MemIndex
          /\ state.pc + 1 \in MemIndex]_vars
\* a run that fetched at 254, the last even address, and went on from there
C38_Witness ==
  /\ Returned("run") /\ obs.op = "run" /\ InByte(obs.pc0)
  /\ Len(obs.trace) >= 2
  /\ obs.trace[1].fetched /\ obs.trace[1].pc = 254
  /\ obs.trace[2].fetched /\ obs.trace[2].pc = 0

\* ---------------------------------------------------------------------------
\* C39: save_state followed by load_state of the file written is a round trip.
\* The load succeeds and the object loaded has the total_cycles, acc, pc,
\* memory and breakpoint list (addresses and names, in order) of the object
\* saved, also when a breakpoint has the empty string as its name.
C39_SaveLoadRoundTrip ==
  (ctl.at = "idle" /\ obs.op = "save_load")
    => (ret.value = 1 /\ other = This)
====
